---- MODULE Spec2Model ----
(***************************************************************************)
(* A model of the LINE / Trello task assistant (src/app.py, and its first  *)
(* revision src/app.py.py): the binding store (load_bindings,              *)
(* save_bindings over line_trello_map.json), the webhook callback with its *)
(* three command handlers, and card creation.                              *)
(*                                                                         *)
(* Python strings are sequences of characters (one string each), so that   *)
(* startswith, replace, strip, split and `in` are computed as Python       *)
(* computes them.  A Python dict is a sequence of <<key, value>> pairs     *)
(* with distinct keys, in insertion order.                                 *)
(***************************************************************************)
EXTENDS Integers, Sequences, FiniteSets, TLC

VARIABLES
    file,       \* line_trello_map.json: [kind, content]
    pc,         \* pc[h]: where webhook handler invocation h stands
    bindings,   \* bindings[h]: the dict callback holds in its local `bindings`
    left,       \* left[h]: events of the batch not yet handled
    obs,        \* what the handling of the last event did (see NoObs)
    req,        \* req[h]: the event invocation h handles (SpecConc)
    inp,        \* the argument of a function applied on its own (SpecParse)
    out,        \* what it returned
    stage,      \* "given": not applied yet; then the name of what was applied
    scope,      \* what the users send in this behaviour (see TextsOf)
    now,        \* the clock, in half hours (the scheduled scan)
    cards,      \* the cards the board returns to the scan
    runs        \* what each run of the scheduled scan did, oldest first

vars == <<file, pc, bindings, left, obs, req, inp, out, stage, scope, now, cards, runs>>

----------------------------------------------------------------------------
(* Bounds of the model. *)

MaxBatch == 2       \* events in one webhook request
MaxIdPieces == 2    \* pieces after the bind prefix in a bind message
MaxSegs == 2        \* comma-separated segments in a task message
MaxParseSegs == 3   \* segments in a text given to parse_fields on its own
MaxCards == 2       \* cards on the board the scan reads
MaxRuns == 4        \* runs of the scheduled scan
MaxTokens == 2         \* table tokens in a phrase
MaxPhrasePieces == 2 \* pieces of a due phrase resolved on its own

----------------------------------------------------------------------------
(* Python values. *)

None == [isNone |-> TRUE, s |-> <<>>]
Some(s) == [isNone |-> FALSE, s |-> s]
\* Python truthiness of an optional string: None and "" are falsy.
Truthy(o) == ~o.isNone /\ o.s # <<>>

\* str.isspace() characters of the model's alphabet.
Whitespace == {" ", "\t", "\n"}

\* s[i:i+len(p)] == p
MatchAt(s, p, i) ==
    /\ i >= 1
    /\ i + Len(p) - 1 <= Len(s)
    /\ SubSeq(s, i, i + Len(p) - 1) = p

\* s.startswith(p)
StartsWith(s, p) == MatchAt(s, p, 1)

\* p in s
Contains(s, p) == \E i \in 1..(Len(s) - Len(p) + 1) : MatchAt(s, p, i)

RECURSIVE ReplaceFrom(_, _, _, _)
ReplaceFrom(s, old, new, i) ==
    IF i > Len(s) THEN <<>>
    ELSE IF MatchAt(s, old, i)
         THEN new \o ReplaceFrom(s, old, new, i + Len(old))
         ELSE <<s[i]>> \o ReplaceFrom(s, old, new, i + 1)

\* s.replace(old, new), old non-empty: every non-overlapping occurrence,
\* found left to right.
Replace(s, old, new) == ReplaceFrom(s, old, new, 1)

RECURSIVE LStrip(_)
LStrip(s) == IF Len(s) > 0 /\ s[1] \in Whitespace THEN LStrip(Tail(s)) ELSE s

RECURSIVE RStrip(_)
RStrip(s) ==
    IF Len(s) > 0 /\ s[Len(s)] \in Whitespace
    THEN RStrip(SubSeq(s, 1, Len(s) - 1))
    ELSE s

\* s.strip()
Strip(s) == RStrip(LStrip(s))

RECURSIVE SplitFrom(_, _, _, _)
SplitFrom(s, sep, i, cur) ==
    IF i > Len(s) THEN <<cur>>
    ELSE IF s[i] = sep
         THEN <<cur>> \o SplitFrom(s, sep, i + 1, <<>>)
         ELSE SplitFrom(s, sep, i + 1, Append(cur, s[i]))

\* s.split(sep) for a one-character sep
Split(s, sep) == SplitFrom(s, sep, 1, <<>>)

RECURSIVE Flatten(_)
Flatten(ss) == IF Len(ss) = 0 THEN <<>> ELSE ss[1] \o Flatten(Tail(ss))

\* k in d
DictHas(d, k) == \E i \in 1..Len(d) : d[i][1] = k

\* d.get(k)
DictGet(d, k) ==
    IF DictHas(d, k)
    THEN Some(d[CHOOSE i \in 1..Len(d) : d[i][1] = k][2])
    ELSE None

\* d[k] = v
DictSet(d, k, v) ==
    IF DictHas(d, k)
    THEN [i \in 1..Len(d) |-> IF d[i][1] = k THEN <<k, v>> ELSE d[i]]
    ELSE Append(d, <<k, v>>)

DictKeys(d) == {d[i][1] : i \in 1..Len(d)}

----------------------------------------------------------------------------
(* The literals of src/app.py.  A character outside ASCII is written as its *)
(* romanised name, one name per character:                                  *)
(*   bang ding = "綁定"   zhuang tai = "狀態"   jin du = "進度"            *)
(*   xin zeng ren wu_task = "新增任務"   cheng yuan = "成員"               *)
(*   kai shi = "開始"   jie zhi_stop = "截止"   ri qi = "日期"             *)
(*   colon_fw = "：" (U+FF1A)   comma_fw = "，" (U+FF0C)                   *)

BIND_PREFIX == <<"bang", "ding", " ", "t", "r", "e", "l", "l", "o", "@">>
STATUS_KW1 == <<"zhuang", "tai">>
STATUS_KW2 == <<"jin", "du">>
FIELD_SEP == "comma_fw"
MARK_TASK == <<"xin", "zeng", "ren", "wu_task", "colon_fw">>
MARK_MEMBER == <<"cheng", "yuan", "colon_fw">>
MARK_START == <<"kai", "shi", "ri", "qi", "colon_fw">>
MARK_DUE == <<"jie", "zhi_stop", "ri", "qi", "colon_fw">>
MARK_DATE == <<"ri", "qi", "colon_fw">>

----------------------------------------------------------------------------
(* json.dump / json.load on a dict of strings, at the level of JSON tokens: *)
(* a token is <<kind, payload>>.                                            *)

Tok(k) == <<k, <<>>>>
StrTok(s) == <<"str", s>>

RECURSIVE DumpPairs(_)
DumpPairs(d) ==
    IF Len(d) = 0 THEN <<>>
    ELSE <<StrTok(d[1][1]), Tok(":"), StrTok(d[1][2])>>
         \o (IF Len(d) > 1 THEN <<Tok(",")>> ELSE <<>>)
         \o DumpPairs(Tail(d))

\* json.dump(bindings, f, ensure_ascii=False, indent=2): the text written
json_dump(d) == <<Tok("{")>> \o DumpPairs(d) \o <<Tok("}")>>

JSONDecodeError == [ok |-> FALSE, value |-> <<>>]

RECURSIVE LoadMembers(_, _, _)
LoadMembers(toks, i, acc) ==
    IF i + 3 > Len(toks) THEN JSONDecodeError
    ELSE IF toks[i][1] = "str" /\ toks[i + 1][1] = ":" /\ toks[i + 2][1] = "str"
         THEN LET acc2 == DictSet(acc, toks[i][2], toks[i + 2][2])
              IN  IF toks[i + 3][1] = "}"
                  THEN IF i + 3 = Len(toks)
                       THEN [ok |-> TRUE, value |-> acc2]
                       ELSE JSONDecodeError
                  ELSE IF toks[i + 3][1] = ","
                       THEN LoadMembers(toks, i + 4, acc2)
                       ELSE JSONDecodeError
         ELSE JSONDecodeError

\* json.load(f) of a text that is, or is not, one JSON object of strings
json_load(toks) ==
    IF Len(toks) < 2 \/ toks[1][1] # "{" THEN JSONDecodeError
    ELSE IF toks[2][1] = "}"
         THEN IF Len(toks) = 2
              THEN [ok |-> TRUE, value |-> <<>>]
              ELSE JSONDecodeError
         ELSE LoadMembers(toks, 2, <<>>)

----------------------------------------------------------------------------
(* The binding file.  kind: "missing" (no such file), "text" (content is   *)
(* the token text it holds), "undecodable" (bytes that are not UTF-8: the   *)
(* read raises UnicodeDecodeError).                                         *)

MissingFile == [kind |-> "missing", content |-> <<>>]
TextFile(toks) == [kind |-> "text", content |-> toks]
UndecodableFile == [kind |-> "undecodable", content |-> <<>>]

\* the try body once the file exists: open, json.load, return
LoadExisting(f, r) ==
    IF f.kind = "undecodable"
    THEN [exc |-> "UnicodeDecodeError", value |-> <<>>, log |-> "none"]
    ELSE IF r.ok
    THEN [exc |-> "none", value |-> r.value, log |-> "info:loaded"]
    ELSE [exc |-> "JSONDecodeError", value |-> <<>>, log |-> "none"]

\* the except clauses of load_bindings: every exception becomes {}
CatchAll(r) ==
    IF r.exc = "none" THEN r
    ELSE [exc |-> "none", value |-> <<>>,
          log |-> IF r.exc = "FileNotFoundError" THEN "warning:not-found"
                  ELSE IF r.exc = "JSONDecodeError" THEN "error:decode"
                  ELSE "error:other"]

\* load_bindings of src/app.py.py: os.path.exists, open, json.load, and no
\* try around them
load_bindings_first(f) ==
    IF f.kind = "missing"
    THEN [exc |-> "none", value |-> <<>>, log |-> "none"]
    ELSE LoadExisting(f, json_load(f.content))

\* load_bindings of src/app.py
load_bindings(f) ==
    IF f.kind = "missing"
    THEN [exc |-> "none", value |-> <<>>, log |-> "info:not-found"]
    ELSE CatchAll(LoadExisting(f, json_load(f.content)))

\* How a save can end.  "ok"; "open": open(..., 'w') raised and the file is
\* as it was; "truncate": the file was opened, and so emptied, and json.dump
\* raised before anything reached it; "partial": json.dump raised when all
\* but the closing brace had reached the file.
SaveHows == {"ok", "open", "truncate", "partial"}

\* the same with the file opened in mode 'a': what is written follows what
\* the file held
WriteFile_append(written, f, how) ==
    IF how = "ok" THEN TextFile(f.content \o written)
    ELSE IF how = "open" THEN f
    ELSE IF how = "truncate" THEN TextFile(f.content)
    ELSE TextFile(f.content \o SubSeq(written, 1, Len(written) - 1))

\* what the file holds once `written` was to be written to it
WriteFile(written, f, how) ==
    IF how = "ok" THEN TextFile(written)
    ELSE IF how = "open" THEN f
    ELSE IF how = "truncate" THEN TextFile(<<>>)
    ELSE TextFile(SubSeq(written, 1, Len(written) - 1))

\* save_bindings: the file it leaves; no exception leaves it
save_bindings(d, f, how) == WriteFile(json_dump(d), f, how)

----------------------------------------------------------------------------
(* Date phrases.  More characters, romanised as above:                      *)
(*   qian = "前"   zhi_of = "之"   xia = "下"   xing = "星"   zhou = "週"  *)
(*   yi er san si wu_five liu = "一二三四五六"   ming tian = "明天"        *)
(*   zao shang = "早上"   zhong wu_noon = "中午"   wan = "晚"              *)

QUAL_QIAN == <<"qian">>
QUAL_ZHIQIAN == <<"zhi_of", "qian">>

\* weekday_mapping, in the order the dict literal lists its items
weekday_mapping == <<
    <<<<"xia", "xing", "qi", "yi">>, <<"n", "e", "x", "t", " ", "m", "o", "n", "d", "a", "y">>>>,
    <<<<"zhou", "ri">>, <<"s", "u", "n", "d", "a", "y">>>>,
    <<<<"xing", "qi", "ri">>, <<"s", "u", "n", "d", "a", "y">>>>,
    <<<<"zhou", "yi">>, <<"m", "o", "n", "d", "a", "y">>>>,
    <<<<"xing", "qi", "yi">>, <<"m", "o", "n", "d", "a", "y">>>>,
    <<<<"zhou", "er">>, <<"t", "u", "e", "s", "d", "a", "y">>>>,
    <<<<"xing", "qi", "er">>, <<"t", "u", "e", "s", "d", "a", "y">>>>,
    <<<<"zhou", "san">>, <<"w", "e", "d", "n", "e", "s", "d", "a", "y">>>>,
    <<<<"xing", "qi", "san">>, <<"w", "e", "d", "n", "e", "s", "d", "a", "y">>>>,
    <<<<"zhou", "si">>, <<"t", "h", "u", "r", "s", "d", "a", "y">>>>,
    <<<<"xing", "qi", "si">>, <<"t", "h", "u", "r", "s", "d", "a", "y">>>>,
    <<<<"zhou", "wu_five">>, <<"f", "r", "i", "d", "a", "y">>>>,
    <<<<"xing", "qi", "wu_five">>, <<"f", "r", "i", "d", "a", "y">>>>,
    <<<<"zhou", "liu">>, <<"s", "a", "t", "u", "r", "d", "a", "y">>>>,
    <<<<"xing", "qi", "liu">>, <<"s", "a", "t", "u", "r", "d", "a", "y">>>>,
    <<<<"ming", "tian">>, <<"t", "o", "m", "o", "r", "r", "o", "w">>>> >>

\* due_date_str.replace("前", "").replace("之前", "")
strip_qualifiers(s) == Replace(Replace(s, QUAL_QIAN, <<>>), QUAL_ZHIQIAN, <<>>)

\* the table applied from its last item to its first: the plain weekday
\* words are replaced before "下星期一" is looked for
RECURSIVE MapDown(_, _)
MapDown(s, j) ==
    IF j < 1 THEN s
    ELSE MapDown(Replace(s, weekday_mapping[j][1], weekday_mapping[j][2]), j - 1)

map_in_reverse(s, i) == MapDown(s, Len(weekday_mapping))

RECURSIVE MapFrom(_, _)
MapFrom(s, i) ==
    IF i > Len(weekday_mapping) THEN s
    ELSE MapFrom(Replace(s, weekday_mapping[i][1], weekday_mapping[i][2]), i + 1)

\* for chinese_weekday, english_weekday in weekday_mapping.items(): replace
apply_weekday_mapping(s) == MapFrom(s, 1)

KW_MORNING == <<"zao", "shang">>
KW_NOON == <<"zhong", "wu_noon">>
KW_AFTERNOON == <<"xia", "wu_noon">>
KW_EVENING == <<"wan", "shang">>

\* the if / elif chain over the time-of-day words: the hour and the phrase left
time_keyword(s) ==
    IF Contains(s, KW_MORNING)
    THEN [hour |-> 8, rest |-> Replace(s, KW_MORNING, <<>>)]
    ELSE IF Contains(s, KW_NOON)
    THEN [hour |-> 12, rest |-> Replace(s, KW_NOON, <<>>)]
    ELSE IF Contains(s, KW_AFTERNOON)
    THEN [hour |-> 14, rest |-> Replace(s, KW_AFTERNOON, <<>>)]
    ELSE IF Contains(s, KW_EVENING)
    THEN [hour |-> 20, rest |-> Replace(s, KW_EVENING, <<>>)]
    ELSE [hour |-> 0, rest |-> s]

----------------------------------------------------------------------------
(* dateutil's parser.parse(s, fuzzy=True), on the model's alphabet.  A day  *)
(* is a day number whose weekday is day % 7 (0 = Monday); the call reads    *)
(* the clock, `today`, for its default date.                                *)

Digits == {"9"}
Punctuation == {"@", "colon_fw"}
IsAlpha(c) == c \notin Whitespace \cup Digits \cup Punctuation

\* the weekday names the parser knows, by weekday number
WeekdayNames == <<
    {<<"m", "o", "n", "d", "a", "y">>, <<"m", "o", "n">>},
    {<<"t", "u", "e", "s", "d", "a", "y">>, <<"t", "u", "e">>},
    {<<"w", "e", "d", "n", "e", "s", "d", "a", "y">>, <<"w", "e", "d">>},
    {<<"t", "h", "u", "r", "s", "d", "a", "y">>, <<"t", "h", "u">>},
    {<<"f", "r", "i", "d", "a", "y">>, <<"f", "r", "i">>},
    {<<"s", "a", "t", "u", "r", "d", "a", "y">>, <<"s", "a", "t">>},
    {<<"s", "u", "n", "d", "a", "y">>, <<"s", "u", "n">>} >>

RECURSIVE WordsFrom(_, _, _)
WordsFrom(s, i, cur) ==
    IF i > Len(s) THEN (IF Len(cur) > 0 THEN <<cur>> ELSE <<>>)
    ELSE IF IsAlpha(s[i]) THEN WordsFrom(s, i + 1, Append(cur, s[i]))
    ELSE (IF Len(cur) > 0 THEN <<cur>> ELSE <<>>) \o WordsFrom(s, i + 1, <<>>)

\* the maximal runs of alphabetic characters: the lexer's word tokens
Words(s) == WordsFrom(s, 1, <<>>)

IsWeekdayWord(w) == \E d \in 1..7 : w \in WeekdayNames[d]
WeekdayOf(w) == (CHOOSE d \in 1..7 : w \in WeekdayNames[d]) - 1

NoDate == [isNone |-> TRUE, day |-> 0, hour |-> 0, minute |-> 0]
DateTime(d, h, m) == [isNone |-> FALSE, day |-> d, hour |-> h, minute |-> m]

HasDigit(s) == \E i \in 1..Len(s) : s[i] \in Digits

\* A phrase with digits is modelled only when it is one run of ten or more
\* digits: the year does not fit a C int and datetime.replace raises
\* OverflowError.
DigitsOutcome(t) ==
    IF Len(t) >= 10 /\ \A i \in 1..Len(t) : t[i] \in Digits
    THEN [exc |-> "OverflowError", dt |-> NoDate]
    ELSE [exc |-> "unmodelled", dt |-> NoDate]

\* the day the default date (today, 00:00) moves to: the first day of that
\* weekday that is not before today
DateOn(wd, today) == DateTime(today + ((wd - today) % 7), 0, 0)

\* Without digits: the last weekday word decides, any other word is skipped
\* (fuzzy), and no weekday word at all is a ParserError, a ValueError.
WeekdayOutcome(known, today) ==
    IF Len(known) = 0
    THEN [exc |-> "ValueError", dt |-> NoDate]
    ELSE [exc |-> "none", dt |-> DateOn(WeekdayOf(known[Len(known)]), today)]

parser_parse(s, today) ==
    IF HasDigit(s)
    THEN DigitsOutcome(Strip(s))
    ELSE WeekdayOutcome(SelectSeq(Words(s), IsWeekdayWord), today)

\* datetime.strftime('%Y-%m-%d')
strftime_date(dt) == <<"date", ToString(dt.day)>>

----------------------------------------------------------------------------
(* The inputs of the model. *)

U1 == <<"u", "1">>
U2 == <<"u", "2">>
Users == {U1, U2}

Weekdays == 0..6
\* the days of the week a message of this specification arrives on: a
\* Monday, a Saturday, a Sunday
ArrivalDays == {0, 5, 6}

RECURSIVE ConcatsUpTo(_, _)
ConcatsUpTo(P, n) ==
    IF n = 0 THEN {<<>>}
    ELSE LET prev == ConcatsUpTo(P, n - 1)
         IN  prev \cup {c \o q : c \in prev, q \in P}

\* what may follow the bind prefix
IdPieces == {<<" ">>, BIND_PREFIX, STATUS_KW1}
BindTexts == {BIND_PREFIX \o r : r \in ConcatsUpTo(IdPieces, MaxIdPieces)}

NINES == <<"9", "9", "9", "9", "9", "9", "9", "9", "9", "9">>
SATURDAY_CN == <<"zhou", "liu">>

\* the segments of the messages that are no bind command
Segments ==
    { MARK_TASK \o <<"x">>, MARK_TASK,
      MARK_MEMBER \o <<"x">>,
      MARK_START \o <<"x">>,
      MARK_DATE \o SATURDAY_CN, MARK_DUE \o <<"x">>, MARK_DATE \o NINES,
      <<"x">>, STATUS_KW1, STATUS_KW2 }

RECURSIVE JoinsUpTo(_, _)
JoinsUpTo(S, n) ==
    IF n = 1 THEN S
    ELSE LET prev == JoinsUpTo(S, n - 1)
         IN  prev \cup {c \o <<FIELD_SEP>> \o q : c \in prev, q \in S}

TaskTexts == JoinsUpTo(Segments, MaxSegs)

\* "新增任務：買牛奶，成員：小明，日期：週六"
\*   mai niu nai = "買牛奶"   xiao ming = "小明"
ExampleTask ==
    MARK_TASK \o <<"mai", "niu", "nai">> \o <<FIELD_SEP>>
    \o MARK_MEMBER \o <<"xiao", "ming">> \o <<FIELD_SEP>>
    \o MARK_DATE \o SATURDAY_CN

\* task messages with a start date, one the parser knows ("saturday") and
\* one it does not ("x"), and the due date "週六"
SATURDAY_EN == <<"s", "a", "t", "u", "r", "d", "a", "y">>
StartTexts ==
    {MARK_TASK \o <<"x">> \o <<FIELD_SEP>> \o MARK_START \o st
        \o <<FIELD_SEP>> \o MARK_DATE \o SATURDAY_CN : st \in {SATURDAY_EN, <<"x">>}}

\* two ids, and the bind commands that give them
ID_A == STATUS_KW1
ID_B == STATUS_KW2
PlainBinds == {BIND_PREFIX \o ID_A, BIND_PREFIX \o <<" ">> \o ID_B}

\* Three scopes bound what a behaviour sees.  "messages": messages of
\* every kind, the bind command among them being "綁定 trello@狀態", and
\* saves that succeed.  "binds": bind commands of every shape, and saves
\* that succeed.  "store": the bind commands of two ids, one with no id and
\* a plain message, and saves that end in every way.
MessageTexts ==
    TaskTexts \cup StartTexts \cup {ExampleTask, BIND_PREFIX \o STATUS_KW1}
StoreTexts == PlainBinds \cup {BIND_PREFIX, <<"x">>}

\* the bind commands of two invocations that run at once (SpecConc)
ConcTexts == PlainBinds

\* every text a handler of the model is called with
AllTexts == MessageTexts \cup BindTexts \cup StoreTexts

\* text.replace("綁定 trello@", "").strip()
trello_id_input(text) == Strip(Replace(text, BIND_PREFIX, <<>>))

\* The functions of a text alone are computed once for every text of the
\* model and looked up by the handlers: trello_id_input here, and below
\* the status condition, the field scan and the date resolution.
trello_id_inputs == [t \in AllTexts |-> trello_id_input(t)]

TextsOf(sc) ==
    IF sc = "store" THEN StoreTexts
    ELSE IF sc = "binds" THEN BindTexts
    ELSE MessageTexts
SavesOf(sc) == IF sc = "store" THEN SaveHows ELSE {"ok"}

\* The outcomes of the outside calls one event can meet.  A call the text
\* cannot lead to gets one fixed outcome.
Envs(text, sc) ==
    [save : IF StartsWith(text, BIND_PREFIX) /\ trello_id_input(text) # <<>>
            THEN SavesOf(sc) ELSE {"ok"},
     cardsOk : IF Contains(text, STATUS_KW1) \/ Contains(text, STATUS_KW2)
               THEN BOOLEAN ELSE {TRUE},
     memberFound : IF Contains(text, MARK_MEMBER) THEN BOOLEAN ELSE {TRUE},
     postOk : IF Contains(text, MARK_TASK) THEN BOOLEAN ELSE {TRUE},
     today : IF Contains(text, MARK_DATE) THEN ArrivalDays ELSE {0}]

\* Envs, computed once for every text
Scopes == {"messages", "binds", "store"}
envs == [t \in AllTexts |-> [sc \in Scopes |-> Envs(t, sc)]]

\* the file at the start: missing, not UTF-8, empty, "{}", or one binding
InitFiles ==
    {MissingFile, UndecodableFile, TextFile(<<>>), TextFile(json_dump(<<>>)),
     TextFile(json_dump(<<<<U1, STATUS_KW1>>>>))}

----------------------------------------------------------------------------
(* What one call does to the outside: LINE messages pushed, Trello requests *)
(* made, ChatGPT prompts sent.                                              *)

\* send_line_message(to, ...): the request it posts; a failure to deliver is
\* logged and swallowed.  kind names the text, arg its variable part.
Line(to, kind, arg) == [to |-> to, kind |-> kind, arg |-> arg]

\* a Trello request
Board(op, name, member, due) ==
    [op |-> op, name |-> name, member |-> member, due |-> due]

\* What a handler returns and does: ret (its return value), exc (the
\* exception that leaves it, "none" if none), acted (it took its branch),
\* b and f (the bindings dict and the binding file it leaves), and the calls.
Effects(ret, exc, acted, b, f, sent, board, llm, saves) ==
    [ret |-> ret, exc |-> exc, acted |-> acted, b |-> b, f |-> f,
     sent |-> sent, board |-> board, llm |-> llm, saves |-> saves]

NoEffects(b, f) == Effects(FALSE, "none", FALSE, b, f, <<>>, <<>>, <<>>, 0)

\* bindings[user_id] = trello_id; save_bindings(bindings); the reply
StoreBinding(user_id, trello_id, b2, f, env) ==
    Effects(TRUE, "none", TRUE, b2, save_bindings(b2, f, env.save),
            <<Line(Some(user_id), "bind:ok", trello_id)>>, <<>>, <<>>, 1)

\* the bind branch of src/app.py.py: the id is stored whatever it is
BindTo_first(user_id, id, b, f, env) ==
    StoreBinding(user_id, id, DictSet(b, user_id, id), f, env)

\* the body of `if text.startswith("綁定 trello@")`
BindTo(user_id, id, b, f, env) ==
    IF id = <<>>
    THEN Effects(TRUE, "none", TRUE, b, f,
                 <<Line(Some(user_id), "bind:empty-id", <<>>)>>, <<>>, <<>>, 0)
    ELSE StoreBinding(user_id, id, DictSet(b, user_id, id), f, env)

handle_binding_command(user_id, text, b, f, env) ==
    IF StartsWith(text, BIND_PREFIX)
    THEN BindTo(user_id, trello_id_inputs[text], b, f, env)
    ELSE NoEffects(b, f)

\* get_user_trello_tasks: the requests it makes (the cards, then the lists)
get_user_trello_tasks(trello_id, env) ==
    IF env.cardsOk
    THEN <<Board("GET cards", <<>>, trello_id, NoDate),
           Board("GET lists", <<>>, None, NoDate)>>
    ELSE <<Board("GET cards", <<>>, trello_id, NoDate)>>

\* "狀態" in text or "進度" in text
is_status_query(text) ==
    Contains(text, STATUS_KW1) \/ Contains(text, STATUS_KW2)

status_queries == {t \in AllTexts : is_status_query(t)}

\* a status handler that answers and then returns False
handle_status_query_falls(user_id, trello_id, text, b, f, env) ==
    IF text \in status_queries
    THEN Effects(FALSE, "none", TRUE, b, f,
                 <<Line(Some(user_id), "reply", <<>>)>>,
                 get_user_trello_tasks(trello_id, env),
                 <<"status">>, 0)
    ELSE NoEffects(b, f)

handle_status_query(user_id, trello_id, text, b, f, env) ==
    IF text \in status_queries
    THEN Effects(TRUE, "none", TRUE, b, f,
                 <<Line(Some(user_id), "reply", <<>>)>>,
                 get_user_trello_tasks(trello_id, env),
                 <<"status">>, 0)
    ELSE NoEffects(b, f)

AfterMarker(line, m) == Strip(SubSeq(line, Len(m) + 1, Len(line)))

NoFields ==
    [task_name |-> <<>>, member_name |-> None,
     start_date_str |-> None, due_date_str |-> None]

\* the loop body with one slice length, len("截止日期："), for both due markers
parse_line_one_length(acc, line) ==
    IF StartsWith(line, MARK_TASK)
    THEN [acc EXCEPT !.task_name = AfterMarker(line, MARK_TASK)]
    ELSE IF StartsWith(line, MARK_MEMBER)
    THEN [acc EXCEPT !.member_name = Some(AfterMarker(line, MARK_MEMBER))]
    ELSE IF StartsWith(line, MARK_START)
    THEN [acc EXCEPT !.start_date_str = Some(AfterMarker(line, MARK_START))]
    ELSE IF StartsWith(line, MARK_DUE) \/ StartsWith(line, MARK_DATE)
    THEN [acc EXCEPT !.due_date_str = Some(AfterMarker(line, MARK_DUE))]
    ELSE acc

\* the body of `for line in lines`
parse_line(acc, line) ==
    IF StartsWith(line, MARK_TASK)
    THEN [acc EXCEPT !.task_name = AfterMarker(line, MARK_TASK)]
    ELSE IF StartsWith(line, MARK_MEMBER)
    THEN [acc EXCEPT !.member_name = Some(AfterMarker(line, MARK_MEMBER))]
    ELSE IF StartsWith(line, MARK_START)
    THEN [acc EXCEPT !.start_date_str = Some(AfterMarker(line, MARK_START))]
    ELSE IF StartsWith(line, MARK_DUE) \/ StartsWith(line, MARK_DATE)
    THEN [acc EXCEPT !.due_date_str =
              Some(IF StartsWith(line, MARK_DUE)
                   THEN AfterMarker(line, MARK_DUE)
                   ELSE AfterMarker(line, MARK_DATE))]
    ELSE acc

RECURSIVE ParseFrom(_, _, _)
ParseFrom(lines, i, acc) ==
    IF i > Len(lines) THEN acc
    ELSE ParseFrom(lines, i + 1, parse_line(acc, lines[i]))

\* lines = text.split('，') and the loop over them
parse_fields(text) == ParseFrom(Split(text, FIELD_SEP), 1, NoFields)

fields_of == [t \in AllTexts |-> parse_fields(t)]

\* the start date: parser.parse on the phrase as written
resolve_start(s, today) == parser_parse(s, today)

\* if hour != 0: due_datetime.replace(hour=hour, minute=0, ...)
SetHour(r, hour) ==
    IF r.exc = "none" /\ hour # 0
    THEN [exc |-> "none", dt |-> DateTime(r.dt.day, hour, 0)]
    ELSE r

ParseRest(kw, today) == SetHour(parser_parse(kw.rest, today), kw.hour)

\* the due date: qualifiers stripped, weekdays translated, the time-of-day
\* word taken out, parser.parse, then the hour of the word set if it is not 0
resolve_due(s, today) ==
    ParseRest(time_keyword(apply_weekday_mapping(strip_qualifiers(s))), today)

\* The try block of handle_create_task_command, statement by statement, on
\* [exc, warned, start_date_str, due_date_str, due_datetime].
DatesBefore(fields) ==
    [exc |-> "none", warned |-> FALSE,
     start_date_str |-> fields.start_date_str,
     due_date_str |-> fields.due_date_str,
     due_datetime |-> NoDate]

StartParsed(st, r) ==
    IF r.exc = "none"
    THEN [st EXCEPT !.start_date_str = Some(strftime_date(r.dt))]
    ELSE [st EXCEPT !.exc = r.exc]

\* if start_date_str: ...
try_start(st, today) ==
    IF Truthy(st.start_date_str)
    THEN StartParsed(st, resolve_start(st.start_date_str.s, today))
    ELSE st

DueParsed(st, r) ==
    IF r.exc = "none"
    THEN [st EXCEPT !.due_date_str = Some(strftime_date(r.dt)),
                    !.due_datetime = r.dt]
    ELSE [st EXCEPT !.exc = r.exc]

\* if due_date_str: ... (not reached once the start date raised)
try_due(st, today) ==
    IF st.exc = "none" /\ Truthy(st.due_date_str)
    THEN DueParsed(st, resolve_due(st.due_date_str.s, today))
    ELSE st

\* except ValueError: warn the user; any other exception leaves
except_value_error(st) ==
    IF st.exc = "ValueError"
    THEN [st EXCEPT !.exc = "none", !.warned = TRUE]
    ELSE st

resolve_dates(fields, today) ==
    except_value_error(try_due(try_start(DatesBefore(fields), today), today))

dates_of ==
    [t \in AllTexts |->
        [today \in ArrivalDays |-> resolve_dates(fields_of[t], today)]]

\* the member the card is given: get_trello_member_id_by_name found one
MemberOf(member_name, env) ==
    IF Truthy(member_name) /\ env.memberFound THEN member_name ELSE None

\* create_trello_card: the member lookup if a member is named, the POST with
\* a due date if due_datetime is set; a failed POST reaches the except
\* clause, whose bindings.get(user_id) names two variables this function
\* does not have: NameError.
create_trello_card(card_name, member_name, due_datetime, env) ==
    [exc |-> IF env.postOk THEN "none" ELSE "NameError",
     board |->
        (IF Truthy(member_name)
         THEN <<Board("GET members", member_name.s, None, NoDate)>>
         ELSE <<>>)
        \o <<Board("POST cards", card_name, MemberOf(member_name, env),
                   due_datetime)>>]

Warned(user_id, dates) ==
    IF dates.warned
    THEN <<Line(Some(user_id), "warning:date", <<>>)>>
    ELSE <<>>

\* after create_trello_card: send_line_message(user_id, reply_message)
CardCreated(user_id, dates, card, b, f) ==
    IF card.exc # "none"
    THEN Effects(FALSE, card.exc, TRUE, b, f, Warned(user_id, dates),
                 card.board, <<"text">>, 0)
    ELSE Effects(TRUE, "none", TRUE, b, f,
                 Warned(user_id, dates) \o <<Line(Some(user_id), "reply", <<>>)>>,
                 card.board, <<"text">>, 0)

\* the else branch: a message with a task name
StructuredTask(user_id, fields, dates, b, f, env) ==
    IF dates.exc # "none"
    THEN Effects(FALSE, dates.exc, TRUE, b, f, <<>>, <<>>, <<"text">>, 0)
    ELSE CardCreated(user_id, dates,
                     create_trello_card(fields.task_name, fields.member_name,
                                        dates.due_datetime, env),
                     b, f)

\* `if not task_name`: the hint and the reply, and no card; else the card
TaskFrom(user_id, text, fields, b, f, env) ==
    IF fields.task_name = <<>>
    THEN Effects(TRUE, "none", TRUE, b, f,
                 <<Line(Some(user_id), "hint:format", <<>>),
                   Line(Some(user_id), "reply", <<>>)>>,
                 <<>>, <<"text">>, 0)
    ELSE StructuredTask(user_id, fields, dates_of[text][env.today],
                        b, f, env)

handle_create_task_command(user_id, text, b, f, env) ==
    TaskFrom(user_id, text, fields_of[text], b, f, env)

----------------------------------------------------------------------------
(* The body of callback's loop for one text message event. *)

HandlerNames == <<"Bind", "StatusQuery", "CreateTask", "General">>

\* lines 248-250: the reply to a message no handler took
general_reply(user_id, b, f) ==
    Effects(TRUE, "none", TRUE, b, f,
            <<Line(Some(user_id), "reply", <<>>)>>, <<>>, <<"text">>, 0)

After3(user_id, r1, r2, r3) ==
    IF r3.ret \/ r3.exc # "none" THEN <<r1, r2, r3>>
    ELSE <<r1, r2, r3, general_reply(user_id, r3.b, r3.f)>>

After2(user_id, text, env, r1, r2) ==
    IF r2.ret \/ r2.exc # "none" THEN <<r1, r2>>
    ELSE After3(user_id, r1, r2,
                handle_create_task_command(user_id, text, r2.b, r2.f, env))

After1(user_id, text, env, r1) ==
    IF r1.ret \/ r1.exc # "none" THEN <<r1>>
    ELSE After2(user_id, text, env, r1,
                handle_status_query(user_id, DictGet(r1.b, user_id), text,
                                    r1.b, r1.f, env))

\* The calls made for one event, in order, each with what it did: a handler
\* that returns True (or raises) ends the iteration.
callback_calls(user_id, text, b, f, env) ==
    After1(user_id, text, env,
           handle_binding_command(user_id, text, b, f, env))

RECURSIVE BranchesFrom(_, _)
BranchesFrom(calls, i) ==
    IF i > Len(calls) THEN <<>>
    ELSE (IF calls[i].acted THEN <<HandlerNames[i]>> ELSE <<>>)
         \o BranchesFrom(calls, i + 1)

NoEnv ==
    [save |-> "ok", cardsOk |-> TRUE, memberFound |-> TRUE, postOk |-> TRUE,
     today |-> 0]

NoObs ==
    [kind |-> "none", h |-> 0, user |-> <<>>, text |-> <<>>,
     branches |-> <<>>,
     exc |-> "none", sent |-> <<>>, board |-> <<>>, llm |-> <<>>,
     saves |-> 0, save |-> "none", post |-> "none",
     fileBefore |-> MissingFile, bBefore |-> <<>>]

\* the POST of a card is among the requests made
PostsCard(board) == \E i \in 1..Len(board) : board[i].op = "POST cards"

\* What the iteration for one event did, seen from outside; save is how the
\* call of save_bindings ended, "none" if there was no call, and post how
\* the POST of the card ended, "none" if there was no POST.
EventObs(h, user_id, text, env, b, f, calls) ==
    [kind |-> "event", h |-> h, user |-> user_id, text |-> text,
     branches |-> BranchesFrom(calls, 1),
     exc |-> calls[Len(calls)].exc,
     sent |-> Flatten([i \in 1..Len(calls) |-> calls[i].sent]),
     board |-> Flatten([i \in 1..Len(calls) |-> calls[i].board]),
     llm |-> Flatten([i \in 1..Len(calls) |-> calls[i].llm]),
     saves |-> IF calls[1].saves > 0 THEN 1 ELSE 0,
     save |-> IF calls[1].saves > 0 THEN env.save ELSE "none",
     post |-> IF ~PostsCard(calls[Len(calls)].board) THEN "none"
              ELSE IF env.postOk THEN "ok" ELSE "failed",
     fileBefore |-> f, bBefore |-> b]

----------------------------------------------------------------------------
(* The webhook: one invocation of callback, h, at a time.  Spec is the      *)
(* webhook under the scope "messages", SpecBind under "binds", SpecStore    *)
(* under "store".                                                           *)

Handlers == {1, 2}

NoReq == [user |-> <<>>, text |-> <<>>]

\* the scheduled scan is not part of the behaviour
NoScan ==
    /\ now = 0
    /\ cards = <<>>
    /\ runs = <<>>

\* no webhook invocation has begun
Quiet ==
    /\ pc = [h \in Handlers |-> "idle"]
    /\ bindings = [h \in Handlers |-> <<>>]
    /\ left = [h \in Handlers |-> 0]
    /\ obs = NoObs
    /\ req = [h \in Handlers |-> NoReq]

Init ==
    /\ file \in InitFiles
    /\ Quiet
    /\ inp = <<>>
    /\ out = NoFields
    /\ stage = "given"
    /\ scope = "messages"
    /\ NoScan

InitBind ==
    /\ file \in InitFiles
    /\ Quiet
    /\ inp = <<>>
    /\ out = NoFields
    /\ stage = "given"
    /\ scope = "binds"
    /\ NoScan

InitStore ==
    /\ file \in InitFiles
    /\ Quiet
    /\ inp = <<>>
    /\ out = NoFields
    /\ stage = "given"
    /\ scope = "store"
    /\ NoScan

\* a request with n events arrives: bindings = load_bindings()
callback_begin(h) ==
    /\ pc[h] = "idle"
    /\ \E n \in 1..MaxBatch :
        LET r == load_bindings(file)
        IN  /\ obs' = [NoObs EXCEPT !.kind = "load", !.h = h, !.exc = r.exc,
                                    !.fileBefore = file, !.bBefore = r.value]
            /\ IF r.exc = "none"
               THEN /\ pc' = [pc EXCEPT ![h] = "loop"]
                    /\ bindings' = [bindings EXCEPT ![h] = r.value]
                    /\ left' = [left EXCEPT ![h] = n]
               ELSE UNCHANGED <<pc, bindings, left>>
    /\ UNCHANGED <<file, req, inp, out, stage, scope, now, cards, runs>>

\* one iteration of `for event in events` on a text message
callback_event(h) ==
    /\ pc[h] = "loop"
    /\ left[h] > 0
    /\ \E user_id \in Users, text \in TextsOf(scope) :
        \E env \in envs[text][scope] :
            LET calls == callback_calls(user_id, text, bindings[h], file, env)
                last == calls[Len(calls)]
            IN  /\ obs' = EventObs(h, user_id, text, env, bindings[h], file,
                                    calls)
                /\ bindings' = [bindings EXCEPT ![h] = last.b]
                /\ file' = last.f
    /\ pc' = [pc EXCEPT ![h] = "handled"]
    /\ UNCHANGED <<left, req, inp, out, stage, scope, now, cards, runs>>

\* the loop goes on to the next event; an exception that left the handler
\* leaves callback too, and the rest of the batch is dropped
callback_continue(h) ==
    /\ pc[h] = "handled"
    /\ obs' = NoObs
    /\ IF obs.exc = "none"
       THEN /\ pc' = [pc EXCEPT ![h] = "loop"]
            /\ left' = [left EXCEPT ![h] = left[h] - 1]
            /\ UNCHANGED bindings
       ELSE /\ pc' = [pc EXCEPT ![h] = "idle"]
            /\ left' = [left EXCEPT ![h] = 0]
            /\ bindings' = [bindings EXCEPT ![h] = <<>>]
    /\ UNCHANGED <<file, req, inp, out, stage, scope, now, cards, runs>>

\* return 'OK'
callback_return(h) ==
    /\ pc[h] = "loop"
    /\ left[h] = 0
    /\ pc' = [pc EXCEPT ![h] = "idle"]
    /\ bindings' = [bindings EXCEPT ![h] = <<>>]
    /\ obs' = NoObs
    /\ UNCHANGED <<file, left, req, inp, out, stage, scope, now, cards, runs>>

Next ==
    \/ callback_begin(1)
    \/ callback_event(1)
    \/ callback_continue(1)
    \/ callback_return(1)

Spec == Init /\ [][Next]_vars

SpecBind == InitBind /\ [][Next]_vars

SpecStore == InitStore /\ [][Next]_vars

----------------------------------------------------------------------------
(* The field scan of handle_create_task_command (lines 130-139) on its own: *)
(* a text is given, and the scan is applied to it.                          *)

\* the segments of the texts given to the scan: each marker with a name
\* after it, with blanks around the name, with nothing after it, with blanks
\* before the marker, and segments with no marker
ParseSegments ==
    { MARK_TASK \o <<"x">>, MARK_TASK \o <<" ", "y", " ">>, MARK_TASK,
      <<" ">> \o MARK_TASK \o <<"x">>,
      MARK_MEMBER \o <<"m">>, MARK_MEMBER \o <<" ">>,
      MARK_START \o <<"s", " ">>,
      MARK_DUE \o <<"d">>, MARK_DATE \o <<" ", "e">>,
      MARK_DUE \o MARK_DATE \o <<"f">>,
      <<"x">>, <<>> }

ParseTexts == JoinsUpTo(ParseSegments, MaxParseSegs) \cup {ExampleTask}

InitParse ==
    /\ file = MissingFile
    /\ Quiet
    /\ inp \in ParseTexts
    /\ out = NoFields
    /\ stage = "given"
    /\ scope = "none"
    /\ NoScan

\* lines 122-139: the four fields start empty, then the loop over the segments
scan_fields ==
    /\ stage = "given"
    /\ out' = parse_fields(inp)
    /\ stage' = "parse_fields"
    /\ UNCHANGED <<file, pc, bindings, left, obs, req, inp, scope, now, cards, runs>>

NextParse == scan_fields

SpecParse == InitParse /\ [][NextParse]_vars

----------------------------------------------------------------------------
(* Two webhook invocations at once, each with one bind command.  The steps  *)
(* of an invocation are the places another thread can run between: the load *)
(* (line 233), the assignment (line 99), and save_bindings' open, which     *)
(* empties the file, and its write, which reaches the file when it closes.  *)
(* obs is the load when the last step was one, as in callback_begin.        *)

ConcInitFiles ==
    {MissingFile, TextFile(json_dump(<<>>)),
     TextFile(json_dump(<<<<U1, ID_A>>>>))}

InitConc ==
    /\ file \in ConcInitFiles
    /\ Quiet
    /\ inp = <<>>
    /\ out = NoFields
    /\ stage = "given"
    /\ scope = "none"
    /\ NoScan

\* the request arrives and callback loads the bindings
conc_load(h) ==
    /\ pc[h] = "idle"
    /\ \E user_id \in Users, text \in ConcTexts :
        req' = [req EXCEPT ![h] = [user |-> user_id, text |-> text]]
    /\ bindings' = [bindings EXCEPT ![h] = load_bindings(file).value]
    /\ obs' = [NoObs EXCEPT !.kind = "load", !.h = h,
                            !.exc = load_bindings(file).exc,
                            !.fileBefore = file,
                            !.bBefore = load_bindings(file).value]
    /\ pc' = [pc EXCEPT ![h] = "loaded"]
    /\ UNCHANGED <<file, left, inp, out, stage, scope, now, cards, runs>>

\* handle_binding_command up to bindings[user_id] = trello_id
conc_set(h) ==
    /\ pc[h] = "loaded"
    /\ bindings' = [bindings EXCEPT ![h] =
            handle_binding_command(req[h].user, req[h].text, bindings[h],
                                   file, NoEnv).b]
    /\ pc' = [pc EXCEPT ![h] = "set"]
    /\ obs' = NoObs
    /\ UNCHANGED <<file, left, req, inp, out, stage, scope, now, cards, runs>>

\* save_bindings: open(BINDING_FILE, 'w')
conc_open(h) ==
    /\ pc[h] = "set"
    /\ file' = save_bindings(bindings[h], file, "truncate")
    /\ pc' = [pc EXCEPT ![h] = "opened"]
    /\ obs' = NoObs
    /\ UNCHANGED <<bindings, left, req, inp, out, stage, scope, now, cards, runs>>

\* save_bindings: json.dump and the close of the file
conc_write(h) ==
    /\ pc[h] = "opened"
    /\ file' = save_bindings(bindings[h], file, "ok")
    /\ pc' = [pc EXCEPT ![h] = "done"]
    /\ obs' = NoObs
    /\ UNCHANGED <<bindings, left, req, inp, out, stage, scope, now, cards, runs>>

NextConc ==
    \E h \in Handlers :
        \/ conc_load(h)
        \/ conc_set(h)
        \/ conc_open(h)
        \/ conc_write(h)

SpecConc == InitConc /\ [][NextConc]_vars

----------------------------------------------------------------------------
(* The scheduled scan, check_trello_cards.  The clock counts half hours.    *)
(* A card is [name, due, idMembers]; its due is what card.get('due') holds: *)
(* "none" (null, absent or ""), "invalid" (a string fromisoformat rejects), *)
(* "naive" (an ISO 8601 string without offset, t its time) or "aware" (one  *)
(* with a UTC offset, such as +00:00, which fromisoformat reads as an aware *)
(* datetime).                                                               *)

HALF_HOUR == 1
DAY == 48 * HALF_HOUR

NoDue == [kind |-> "none", t |-> 0]
InvalidDue == [kind |-> "invalid", t |-> 0]
Naive(t) == [kind |-> "naive", t |-> t]
Aware(t) == [kind |-> "aware", t |-> t]

Card(name, d, idMembers) == [name |-> name, due |-> d, idMembers |-> idMembers]

\* scheduler.add_job(check_trello_cards, 'interval', minutes=30): src/app.py.py
SCAN_EVERY_first == HALF_HOUR

\* scheduler.add_job(check_trello_cards, 'interval', hours=24): src/app.py
SCAN_EVERY == DAY

\* (due_date - now).days: a timedelta's days are the floor of the difference
days_until(t, at) == (t - at) \div DAY

\* the test with a window of two days: one or two days left
is_due_in_two_days(t, at) == days_until(t, at) \in {1, 2}

\* (due_date - now).days == 1
is_due_tomorrow(t, at) == days_until(t, at) = 1

RECURSIVE FirstUidFrom(_, _, _)
FirstUidFrom(b, trello_member_id, i) ==
    IF i > Len(b) THEN None
    ELSE IF b[i][2] = trello_member_id THEN Some(b[i][1])
    ELSE FirstUidFrom(b, trello_member_id, i + 1)

\* next((uid for uid, tid in bindings.items() if tid == trello_member_id), None)
user_id_of(b, trello_member_id) == FirstUidFrom(b, trello_member_id, 1)

\* if user_id: send_line_message(user_id, "提醒：任務『...』明天截止，請注意。")
Remind(user_id, card) ==
    IF Truthy(user_id) THEN <<Line(user_id, "reminder", card.name)>> ELSE <<>>

\* for trello_member_id in card.get('idMembers', [])
RECURSIVE RemindFrom(_, _, _)
RemindFrom(card, b, i) ==
    IF i > Len(card.idMembers) THEN <<>>
    ELSE Remind(user_id_of(b, card.idMembers[i]), card)
         \o RemindFrom(card, b, i + 1)

\* what a run, or a part of it, did: the exception that ended it, the cards
\* it logged as due in one day (line 417), the reminders it sent
ScanResult(exc, flagged, sent) ==
    [exc |-> exc, flagged |-> flagged, sent |-> sent]

NothingDone == ScanResult("none", <<>>, <<>>)

\* The body of `for card in cards` for one card.  due_date - now with an
\* aware due_date and the naive datetime.now() raises TypeError.
check_card(card, b, at) ==
    IF card.due.kind \in {"none", "invalid"} THEN NothingDone
    ELSE IF card.due.kind = "aware" THEN ScanResult("TypeError", <<>>, <<>>)
    ELSE IF is_due_tomorrow(card.due.t, at)
    THEN ScanResult("none", <<card.name>>, RemindFrom(card, b, 1))
    ELSE NothingDone

ThenRest(r, rest) ==
    IF r.exc # "none" THEN r
    ELSE ScanResult(rest.exc, r.flagged \o rest.flagged, r.sent \o rest.sent)

\* the loop over the cards: an exception ends it, and what was sent is sent
RECURSIVE ScanFrom(_, _, _, _)
ScanFrom(cs, i, b, at) ==
    IF i > Len(cs) THEN NothingDone
    ELSE ThenRest(check_card(cs[i], b, at),
                  IF check_card(cs[i], b, at).exc # "none"
                  THEN NothingDone
                  ELSE ScanFrom(cs, i + 1, b, at))

\* check_trello_cards of src/app.py.py: no try; load_bindings may raise, and
\* so may the request for the cards
FirstScan(l, cs, at, cardsOk) ==
    IF l.exc # "none" THEN ScanResult(l.exc, <<>>, <<>>)
    ELSE IF ~cardsOk THEN ScanResult("RequestException", <<>>, <<>>)
    ELSE ScanFrom(cs, 1, l.value, at)

check_trello_cards_first(f, cs, at, cardsOk) ==
    FirstScan(load_bindings_first(f), cs, at, cardsOk)

\* check_trello_cards of src/app.py: a RequestException is caught and logged,
\* any other exception leaves the function (the scheduler logs it)
check_trello_cards(f, cs, at, cardsOk) ==
    IF ~cardsOk THEN NothingDone
    ELSE ScanFrom(cs, 1, load_bindings(f).value, at)

\* The record of one run: the clock it read, whether load_bindings returned
\* and what, whether the board gave its cards, the exception that left the
\* function, the cards flagged and the reminders sent.
RunOf(at, cardsOk, l, r) ==
    [at |-> at, loaded |-> l.exc = "none", bindings |-> l.value,
     fetched |-> cardsOk, exc |-> r.exc, flagged |-> r.flagged,
     sent |-> r.sent]

\* the dues of the cards, by the clock of the first run (0)
DueTimes ==
    {0 - 1, DAY - 1, DAY, DAY + 1, 2 * DAY - 1, 2 * DAY, 2 * DAY + 1}
Dues == {NoDue, InvalidDue, Aware(DAY)} \cup {Naive(t) : t \in DueTimes}

ID_C == <<"x">>
MemberLists == {<<>>, <<ID_B>>, <<ID_A, ID_B>>, <<ID_C, ID_A>>}

\* cards before they are named: every due with one member, and one due with
\* every list of members
CardPool ==
    {Card(<<>>, d, <<ID_A>>) : d \in Dues}
    \cup {Card(<<>>, Naive(DAY), ms) : ms \in MemberLists}

RECURSIVE ListsUpTo(_, _)
ListsUpTo(P, n) ==
    IF n = 0 THEN {<<>>}
    ELSE LET prev == ListsUpTo(P, n - 1)
         IN  prev \cup {Append(c, q) : c \in prev, q \in P}

\* the card at place i is named "c" + i
Named(cs) == [i \in 1..Len(cs) |-> [cs[i] EXCEPT !.name = <<"c", ToString(i)>>]]

CardLists == {Named(cs) : cs \in ListsUpTo(CardPool, MaxCards)}

\* the binding file the scan reads: no file, a corrupt one, no binding, one
\* binding, two users bound to one member id in either order, and two users
\* bound to two member ids
ScanFiles ==
    {MissingFile, UndecodableFile, TextFile(json_dump(<<>>)),
     TextFile(json_dump(<<<<U1, ID_A>>>>)),
     TextFile(json_dump(<<<<U1, ID_A>>, <<U2, ID_A>>>>)),
     TextFile(json_dump(<<<<U2, ID_A>>, <<U1, ID_A>>>>)),
     TextFile(json_dump(<<<<U1, ID_B>>, <<U2, ID_A>>>>))}

InitScan ==
    /\ file \in ScanFiles
    /\ Quiet
    /\ inp = <<>>
    /\ out = NoFields
    /\ stage = "given"
    /\ scope = "none"
    /\ now = 0
    /\ cards \in CardLists
    /\ runs = <<>>

\* the timer of src/app.py fires: one run of check_trello_cards, and the
\* clock moves on to the next run
scan_run ==
    /\ Len(runs) < MaxRuns
    /\ \E cardsOk \in BOOLEAN :
        runs' = Append(runs,
                       RunOf(now, cardsOk, load_bindings(file),
                             check_trello_cards(file, cards, now, cardsOk)))
    /\ now' = now + SCAN_EVERY
    /\ UNCHANGED <<file, pc, bindings, left, obs, req, inp, out, stage, scope,
                   cards>>

NextScan == scan_run

SpecScan == InitScan /\ [][NextScan]_vars

\* the timer of src/app.py.py fires
scan_run_first ==
    /\ Len(runs) < MaxRuns
    /\ \E cardsOk \in BOOLEAN :
        runs' = Append(runs,
                       RunOf(now, cardsOk, load_bindings_first(file),
                             check_trello_cards_first(file, cards, now,
                                                      cardsOk)))
    /\ now' = now + SCAN_EVERY_first
    /\ UNCHANGED <<file, pc, bindings, left, obs, req, inp, out, stage, scope,
                   cards>>

NextScanFirst == scan_run_first

SpecScanFirst == InitScan /\ [][NextScanFirst]_vars

----------------------------------------------------------------------------
(* The resolution of a due phrase (lines 156-201) on its own: a phrase is   *)
(* given, and it is resolved on some day.                                   *)

\* due_date_str_processed as it is handed to parser.parse at line 198
due_date_str_processed(s) ==
    time_keyword(apply_weekday_mapping(strip_qualifiers(s))).rest

TOMORROW_CN == <<"ming", "tian">>
NEXT_MONDAY_CN == <<"xia", "xing", "qi", "yi">>

\* what the due phrases are made of: day words, time-of-day words, the two
\* qualifiers, and a word that is none of them
PhrasePieces ==
    {SATURDAY_CN, TOMORROW_CN, NEXT_MONDAY_CN, KW_MORNING, KW_EVENING,
     QUAL_QIAN, QUAL_ZHIQIAN, <<"x">>}

DuePhrases == ConcatsUpTo(PhrasePieces, MaxPhrasePieces) \ {<<>>}

InitResolve ==
    /\ file = MissingFile
    /\ Quiet
    /\ inp \in DuePhrases
    /\ out = NoFields
    /\ stage = "given"
    /\ scope = "none"
    /\ NoScan

\* lines 158-201 on the phrase, on the day `today`, and line 153 on the same
\* phrase given as the start date
resolve_phrase ==
    /\ stage = "given"
    /\ \E today \in ArrivalDays :
        out' = [today |-> today,
                handed |-> due_date_str_processed(inp),
                due |-> resolve_due(inp, today),
                start |-> resolve_start(inp, today)]
    /\ stage' = "resolve_due"
    /\ UNCHANGED <<file, pc, bindings, left, obs, req, inp, scope, now, cards,
                   runs>>

NextResolve == resolve_phrase

SpecResolve == InitResolve /\ [][NextResolve]_vars

----------------------------------------------------------------------------
(* The weekday substitution (lines 158-180) on its own, on the phrases      *)
(* built from the table's own tokens.                                       *)

\* the Chinese tokens of the table
Tokens == {weekday_mapping[k][1] : k \in DOMAIN weekday_mapping}

TokenPhrases == ConcatsUpTo(Tokens, MaxTokens) \ {<<>>}

InitMapping ==
    /\ file = MissingFile
    /\ Quiet
    /\ inp \in TokenPhrases
    /\ out = <<>>
    /\ stage = "given"
    /\ scope = "none"
    /\ NoScan

\* lines 158-180: the qualifiers are stripped, then the table is applied
map_weekdays ==
    /\ stage = "given"
    /\ out' = apply_weekday_mapping(strip_qualifiers(inp))
    /\ stage' = "weekday_mapping"
    /\ UNCHANGED <<file, pc, bindings, left, obs, req, inp, scope, now, cards,
                   runs>>

NextMapping == map_weekdays

SpecMapping == InitMapping /\ [][NextMapping]_vars

----------------------------------------------------------------------------
(* The webhook of src/app.py.py.  Nothing in it is wrapped in try: an       *)
(* exception of load_bindings, of save_bindings or of a request leaves      *)
(* callback and ends the request.                                           *)

\* the texts its events carry: binds (one with no id), a status query and a
\* plain message
FirstTexts == StoreTexts \cup {STATUS_KW1}

\* the outcomes of the outside calls one of its events can meet
Envs_first(text) ==
    [save : IF StartsWith(text, BIND_PREFIX) THEN SaveHows ELSE {"ok"},
     cardsOk : IF ~StartsWith(text, BIND_PREFIX) /\ is_status_query(text)
               THEN BOOLEAN ELSE {TRUE},
     memberFound : {TRUE},
     postOk : {TRUE},
     today : {0}]

\* lines 63-68: the id is stored and saved; an exception of save_bindings
\* leaves callback before the reply is sent
bind_first(user_id, text, b, f, env) ==
    LET r == BindTo_first(user_id, trello_id_input(text), b, f, env)
    IN  IF env.save = "ok" THEN r
        ELSE [r EXCEPT !.exc = "OSError", !.sent = <<>>]

\* lines 75-77: the cards and the lists are fetched, the model is asked
status_first(user_id, trello_id, b, f, env) ==
    IF env.cardsOk
    THEN Effects(TRUE, "none", TRUE, b, f,
                 <<Line(Some(user_id), "reply", <<>>)>>,
                 get_user_trello_tasks(trello_id, env), <<"status">>, 0)
    ELSE Effects(TRUE, "RequestException", TRUE, b, f, <<>>,
                 get_user_trello_tasks(trello_id, env), <<>>, 0)

\* lines 78-80: the model is asked, and a card named by the whole text is
\* posted
chat_first(user_id, text, b, f) ==
    Effects(TRUE, "none", TRUE, b, f,
            <<Line(Some(user_id), "reply", <<>>)>>,
            <<Board("POST cards", text, None, NoDate)>>, <<"text">>, 0)

\* lines 59-82: the body of the loop for one text message
callback_body_first(user_id, text, b, f, env) ==
    IF StartsWith(text, BIND_PREFIX)
    THEN [branch |-> "Bind", eff |-> bind_first(user_id, text, b, f, env)]
    ELSE IF ~Truthy(DictGet(b, user_id))
    THEN [branch |-> "MustBind",
          eff |-> Effects(TRUE, "none", TRUE, b, f,
                          <<Line(Some(user_id), "must-bind", <<>>)>>,
                          <<>>, <<>>, 0)]
    ELSE IF is_status_query(text)
    THEN [branch |-> "StatusQuery",
          eff |-> status_first(user_id, DictGet(b, user_id).s, b, f, env)]
    ELSE [branch |-> "General", eff |-> chat_first(user_id, text, b, f)]

InitFirst ==
    /\ file \in InitFiles
    /\ Quiet
    /\ inp = <<>>
    /\ out = NoFields
    /\ stage = "given"
    /\ scope = "first"
    /\ NoScan

\* line 56: bindings = load_bindings()
callback_begin_first(h) ==
    /\ pc[h] = "idle"
    /\ \E n \in 1..MaxBatch :
        LET r == load_bindings_first(file)
        IN  /\ obs' = [NoObs EXCEPT !.kind = "load", !.h = h, !.exc = r.exc,
                                    !.fileBefore = file, !.bBefore = r.value]
            /\ IF r.exc = "none"
               THEN /\ pc' = [pc EXCEPT ![h] = "loop"]
                    /\ bindings' = [bindings EXCEPT ![h] = r.value]
                    /\ left' = [left EXCEPT ![h] = n]
               ELSE UNCHANGED <<pc, bindings, left>>
    /\ UNCHANGED <<file, req, inp, out, stage, scope, now, cards, runs>>

\* one iteration of `for event in events` on a text message
callback_event_first(h) ==
    /\ pc[h] = "loop"
    /\ left[h] > 0
    /\ \E user_id \in Users, text \in FirstTexts :
        \E env \in Envs_first(text) :
            LET r == callback_body_first(user_id, text, bindings[h], file, env)
            IN  /\ obs' = [EventObs(h, user_id, text, env, bindings[h], file,
                                    <<r.eff>>)
                           EXCEPT !.branches = <<r.branch>>]
                /\ bindings' = [bindings EXCEPT ![h] = r.eff.b]
                /\ file' = r.eff.f
    /\ pc' = [pc EXCEPT ![h] = "handled"]
    /\ UNCHANGED <<left, req, inp, out, stage, scope, now, cards, runs>>

NextFirst ==
    \/ callback_begin_first(1)
    \/ callback_event_first(1)
    \/ callback_continue(1)
    \/ callback_return(1)

SpecFirst == InitFirst /\ [][NextFirst]_vars

----------------------------------------------------------------------------
(* The claims.  The first part states what each claim says of a text,       *)
(* without the handlers.                                                    *)

\* the branch the stated precedence gives a text
FirstBranch(text) ==
    IF StartsWith(text, BIND_PREFIX) THEN "Bind"
    ELSE IF Contains(text, STATUS_KW1) \/ Contains(text, STATUS_KW2)
    THEN "StatusQuery"
    ELSE "CreateTask"

\* r of t = "綁定 trello@" + r, trimmed
TrimmedRemainder(text) ==
    Strip(SubSeq(text, Len(BIND_PREFIX) + 1, Len(text)))

IsEvent == obs.kind = "event"
IsBindEvent == IsEvent /\ StartsWith(obs.text, BIND_PREFIX)

\* the bindings dict the invocation holds after the event
BindingsAfter == bindings[obs.h]

Posts(name, due) ==
    \E i \in 1..Len(obs.board) :
        /\ obs.board[i].op = "POST cards"
        /\ obs.board[i].name = name
        /\ obs.board[i].due = due

Sends(kind) ==
    \E i \in 1..Len(obs.sent) :
        obs.sent[i].to = Some(obs.user) /\ obs.sent[i].kind = kind

\* C1: every text message is handled by exactly one terminal branch, the
\* first whose condition holds in the order Bind, StatusQuery, CreateTask.
C1_FirstMatchingBranch ==
    IsEvent => obs.branches = <<FirstBranch(obs.text)>>

\* a task message with a status keyword was handled as StatusQuery only
C1_Witness ==
    /\ IsEvent
    /\ Contains(obs.text, MARK_TASK)
    /\ Contains(obs.text, STATUS_KW1)
    /\ obs.branches = <<"StatusQuery">>

\* C2: a message that is no bind command, from a user with no binding in
\* the store, gets only a "must bind first" reply: no board call and no
\* language-model call.
C2_UnboundOnlyToldToBind ==
    (IsEvent /\ ~StartsWith(obs.text, BIND_PREFIX)
             /\ ~DictHas(obs.bBefore, obs.user))
    => /\ obs.board = <<>>
       /\ obs.llm = <<>>
       /\ obs.sent = <<Line(Some(obs.user), "must-bind", <<>>)>>

\* C3: for t = "綁定 trello@" + r with id = trim(r) non-empty, the handler
\* stores exactly id for the sender, and once the save succeeded a fresh
\* load_bindings() returns id for that user.
C3_StoresTrimmedRemainder ==
    (IsBindEvent /\ TrimmedRemainder(obs.text) # <<>>)
    => /\ DictGet(BindingsAfter, obs.user) = Some(TrimmedRemainder(obs.text))
       /\ obs.save = "ok"
          => DictGet(load_bindings(file).value, obs.user)
             = Some(TrimmedRemainder(obs.text))

\* C4: a bind command whose trimmed id is empty is rejected: one rejection
\* message, the bindings in memory and the file unchanged, save_bindings not
\* called, no later handler run.
C4_EmptyIdRejected ==
    (IsBindEvent /\ TrimmedRemainder(obs.text) = <<>>)
    => /\ obs.sent = <<Line(Some(obs.user), "bind:empty-id", <<>>)>>
       /\ BindingsAfter = obs.bBefore
       /\ file = obs.fileBefore
       /\ obs.saves = 0
       /\ obs.branches = <<"Bind">>
       /\ obs.exc = "none"

\* the rejection happened to a user who had a binding, with a file that
\* holds it
C4_Witness ==
    /\ IsBindEvent
    /\ TrimmedRemainder(obs.text) = <<>>
    /\ Len(obs.text) > Len(BIND_PREFIX)
    /\ DictHas(obs.bBefore, obs.user)
    /\ obs.sent = <<Line(Some(obs.user), "bind:empty-id", <<>>)>>
    /\ file = TextFile(json_dump(obs.bBefore))

\* no segment of the text starts with "新增任務："
NoTaskSegment(text) ==
    \A i \in 1..Len(Split(text, FIELD_SEP)) :
        ~StartsWith(Split(text, FIELD_SEP)[i], MARK_TASK)

\* C5: a message that reaches handle_create_task_command without a
\* "新增任務：" segment gets a card named with the whole text, besides the
\* format hint.
C5_UnstructuredGetsCard ==
    (IsEvent /\ obs.branches = <<"CreateTask">> /\ NoTaskSegment(obs.text))
    => /\ Sends("hint:format")
       /\ Posts(obs.text, NoDate)

\* the segments that start with one of the markers
SegmentsWith(segs, markers) ==
    {i \in 1..Len(segs) : \E m \in markers : StartsWith(segs[i], m)}

Last(idx) == CHOOSE i \in idx : \A j \in idx : j <= i

\* the segment without the marker it starts with, trimmed
RemainderOf(seg, markers) ==
    Strip(SubSeq(seg,
                 Len(CHOOSE m \in markers : StartsWith(seg, m)) + 1,
                 Len(seg)))

\* the value the last segment with one of the markers gives a field, None
\* if no segment has one
FieldFrom(segs, idx, markers) ==
    IF idx = {} THEN None ELSE Some(RemainderOf(segs[Last(idx)], markers))

FieldOf(segs, markers) ==
    FieldFrom(segs, SegmentsWith(segs, markers), markers)

\* the four fields of a text, as the claim describes them
ClaimedFields(segs) ==
    [task_name |-> FieldOf(segs, {MARK_TASK}).s,
     member_name |-> FieldOf(segs, {MARK_MEMBER}),
     start_date_str |-> FieldOf(segs, {MARK_START}),
     due_date_str |-> FieldOf(segs, {MARK_DUE, MARK_DATE})]

ExampleFields ==
    [task_name |-> <<"mai", "niu", "nai">>,
     member_name |-> Some(<<"xiao", "ming">>),
     start_date_str |-> None,
     due_date_str |-> Some(SATURDAY_CN)]

\* C6: of the text split on "，", each segment that starts with a marker
\* sets its field to the trimmed remainder of the segment, a segment with
\* no marker changes no field, and the example text yields its three fields
\* and no start date.
C6_FieldsFromSegments ==
    stage = "parse_fields"
    => /\ out = ClaimedFields(Split(inp, FIELD_SEP))
       /\ inp = ExampleTask => out = ExampleFields

\* the example text was scanned
C6_Witness ==
    /\ stage = "parse_fields"
    /\ inp = ExampleTask
    /\ out = ExampleFields

\* the due phrase of a structured task message that cannot be resolved
UnresolvedDue(text) ==
    /\ parse_fields(text).task_name # <<>>
    /\ Truthy(parse_fields(text).due_date_str)
    /\ \A today \in Weekdays :
        resolve_due(parse_fields(text).due_date_str.s, today).exc # "none"

\* the POST of the card failed: the except clause of create_trello_card is
\* the one place that raises NameError
PostFailed == obs.exc = "NameError"

\* C7: when a structured task message carries a due phrase that cannot be
\* resolved, no exception leaves handle_create_task_command, the user is
\* sent the date warning, and the card is created with the task name and no
\* due timestamp (stated for a POST that does not fail).
C7_UnresolvedDueWarnsAndCreates ==
    (IsEvent /\ obs.branches = <<"CreateTask">> /\ UnresolvedDue(obs.text)
             /\ ~PostFailed)
    => /\ obs.exc = "none"
       /\ Sends("warning:date")
       /\ Posts(parse_fields(obs.text).task_name, NoDate)

\* the id the invocation's bind command gives
ConcId(h) == TrimmedRemainder(req[h].text)

\* C8: two invocations that each handle a valid bind command of a different
\* user lose no update: once both are done, the file holds both bindings.
C8_NoLostUpdate ==
    (pc[1] = "done" /\ pc[2] = "done" /\ req[1].user # req[2].user)
    => \A h \in Handlers :
        DictGet(load_bindings(file).value, req[h].user) = Some(ConcId(h))

\* the ids users can be bound to, and the dicts of bindings
BoundIds == {trello_id_input(t) : t \in PlainBinds}
Stores ==
    {<<>>}
    \cup {<<<<u, i>>>> : u \in Users, i \in BoundIds}
    \cup {<<<<p[1], i>>, <<p[2], j>>>> :
            p \in {q \in Users \X Users : q[1] # q[2]},
            i \in BoundIds, j \in BoundIds}

\* the dicts whose JSON text the file holds
StoresIn(f) == {d \in Stores : f = TextFile(json_dump(d))}

\* what load_bindings is to return for a file
LoadOf(held) == IF held = {} THEN <<>> ELSE CHOOSE d \in held : TRUE

\* C9: load_bindings never raises; it returns the empty mapping when the
\* file is missing, unreadable or holds malformed or truncated JSON, and
\* exactly the mapping when the file holds a valid JSON object.
C9_LoadFailsSoft ==
    obs.kind = "load"
    => /\ obs.exc = "none"
       /\ obs.bBefore = LoadOf(StoresIn(obs.fileBefore))

\* a file that holds a truncated text with a key was loaded as {}
C9_Witness ==
    /\ obs.kind = "load"
    /\ obs.fileBefore.kind = "text"
    /\ Len(obs.fileBefore.content) > 1
    /\ StoresIn(obs.fileBefore) = {}
    /\ obs.bBefore = <<>>
    /\ pc[obs.h] = "loop"

\* the keys of the text a file holds
KeysIn(f) ==
    {u \in Users : \E i \in 1..Len(f.content) : f.content[i] = StrTok(u)}

\* C10: a successful save_bindings(store) followed by load_bindings()
\* returns a mapping equal to store, whatever the file held before.
C10_SaveThenLoad ==
    (IsEvent /\ obs.save = "ok")
    => load_bindings(file) =
         [exc |-> "none", value |-> BindingsAfter, log |-> "info:loaded"]

\* the file held a key the store does not have, and after the save the load
\* returns the store
C10_Witness ==
    /\ IsEvent
    /\ obs.save = "ok"
    /\ KeysIn(obs.fileBefore) \ DictKeys(BindingsAfter) # {}
    /\ load_bindings(file).value = BindingsAfter
    /\ KeysIn(file) = DictKeys(BindingsAfter)

\* the last run of the scan, once there is one
Scanned == Len(runs) > 0
LastRun == runs[Len(runs)]

\* the reminders of a run that name a card
AboutCard(run, card) ==
    SelectSeq(run.sent, LAMBDA m : m.kind = "reminder" /\ m.arg = card.name)

\* the card has a due timestamp one day, and less than two, after `at`
Eligible(card, at) ==
    /\ card.due.kind \in {"naive", "aware"}
    /\ at + DAY <= card.due.t
    /\ card.due.t < at + 2 * DAY

\* the users bound to a member id, by their place in the store
BoundTo(b, m) == {i \in 1..Len(b) : b[i][2] = m}
FirstBoundTo(b, m) ==
    b[CHOOSE i \in BoundTo(b, m) : \A j \in BoundTo(b, m) : i <= j][1]

\* C11: of the cards a run got from the board, one with a due timestamp d,
\* now + 1 day <= d < now + 2 days, and one member id bound to a user gets
\* exactly one reminder, to that user and with the card's name; a card with
\* no due or with any other day difference gets none.
C11_RemindedIffDueInOneDay ==
    (Scanned /\ LastRun.fetched)
    => \A i \in 1..Len(cards) :
        /\ (Eligible(cards[i], LastRun.at) /\ Len(cards[i].idMembers) = 1
              /\ BoundTo(LastRun.bindings, cards[i].idMembers[1]) # {})
           => AboutCard(LastRun, cards[i])
              = <<Line(Some(FirstBoundTo(LastRun.bindings,
                                         cards[i].idMembers[1])),
                       "reminder", cards[i].name)>>
        /\ ~Eligible(cards[i], LastRun.at)
           => AboutCard(LastRun, cards[i]) = <<>>

\* the reminders the claim gives a card: one for each member id some user is
\* bound to, to the first such user
RECURSIVE ClaimedReminders(_, _, _)
ClaimedReminders(card, b, i) ==
    IF i > Len(card.idMembers) THEN <<>>
    ELSE (IF BoundTo(b, card.idMembers[i]) = {} THEN <<>>
          ELSE <<Line(Some(FirstBoundTo(b, card.idMembers[i])),
                      "reminder", card.name)>>)
         \o ClaimedReminders(card, b, i + 1)

\* C12: for each member id of an eligible card, no reminder if no user is
\* bound to it, else exactly one, to the first user of the store bound to it;
\* the reminders of a card are a function of the store and the card.
C12_FirstBoundUserReminded ==
    (Scanned /\ LastRun.fetched)
    => \A i \in 1..Len(cards) :
        Eligible(cards[i], LastRun.at)
        => AboutCard(LastRun, cards[i])
           = ClaimedReminders(cards[i], LastRun.bindings, 1)

Resolved == stage = "resolve_due"

EndsWith(s, q) ==
    Len(s) >= Len(q) /\ SubSeq(s, Len(s) - Len(q) + 1, Len(s)) = q

\* the phrase with "前" where it ends with "之前"
WithQian(s) == SubSeq(s, 1, Len(s) - Len(QUAL_ZHIQIAN)) \o QUAL_QIAN

\* C13: for a base phrase p that is not empty, p + "之前" hands the date
\* parser the same string as p + "前" does, and resolves to the same
\* timestamp or fails as it does.
C13_QualifierFormsAgree ==
    (Resolved /\ EndsWith(inp, QUAL_ZHIQIAN) /\ Len(inp) > Len(QUAL_ZHIQIAN))
    => /\ out.handed = due_date_str_processed(WithQian(inp))
       /\ out.due = resolve_due(WithQian(inp), out.today)

TimeKeywords == <<KW_MORNING, KW_NOON, KW_AFTERNOON, KW_EVENING>>
KeywordHours == <<8, 12, 14, 20>>
KeywordsIn(s) == {k \in 1..4 : Contains(s, TimeKeywords[k])}
FirstKeywordIn(s) == CHOOSE k \in KeywordsIn(s) : \A j \in KeywordsIn(s) : k <= j

\* C14: of the time-of-day words in the phrase the first in the order 早上,
\* 中午, 下午, 晚上 sets the hour of the resolved timestamp (8, 12, 14, 20) and
\* its minute to 0; "明天早上" resolves to the next day at 08:00; with no such
\* word the time of the parser is kept.
C14_TimeOfDayKeyword ==
    Resolved
    => /\ (KeywordsIn(inp) # {} /\ out.due.exc = "none")
          => /\ out.due.dt.hour = KeywordHours[FirstKeywordIn(inp)]
             /\ out.due.dt.minute = 0
       /\ inp = TOMORROW_CN \o KW_MORNING
          => out.due = [exc |-> "none", dt |-> DateTime(out.today + 1, 8, 0)]
       /\ KeywordsIn(inp) = {}
          => out.due = parser_parse(out.handed, out.today)

\* C15: in src/app.py.py, on every run that has the bindings and the cards,
\* a card whose due has no offset and for which (due - now).days == 1 gets
\* its reminders, whether or not an earlier run sent them already.
C15_RemindedOnEveryRunInWindow ==
    (Scanned /\ LastRun.loaded /\ LastRun.fetched)
    => \A i \in 1..Len(cards) :
        (cards[i].due.kind = "naive" /\ Eligible(cards[i], LastRun.at))
        => AboutCard(LastRun, cards[i])
           = ClaimedReminders(cards[i], LastRun.bindings, 1)

\* the invocations that are inside save_bindings, the file opened and not
\* yet written, while another invocation has just loaded
WritersDuringLoad ==
    {w \in Handlers : obs.kind = "load" /\ w # obs.h /\ pc[w] = "opened"}

\* C16: a load_bindings() that runs while another handler is inside
\* save_bindings returns the old mapping or the new one; the two differ in
\* the writer's own binding only, so the load returns what the writer holds
\* for every other user.
C16_LoadDuringSaveSeesSnapshot ==
    \A w \in WritersDuringLoad :
        \A u \in Users \ {req[w].user} :
            DictGet(obs.bBefore, u) = DictGet(bindings[w], u)

\* what the file holds for a user, as load_bindings reads it
Persisted(f, u) == DictGet(load_bindings(f).value, u)

\* C17: with one invocation at a time, a user whose binding the file held
\* before an event still has a binding in the file after it, and the same
\* one unless the event is a bind command of that user.
C17_BindingNeverDeleted ==
    IsEvent
    => \A u \in Users :
        ~Persisted(obs.fileBefore, u).isNone
        => /\ ~Persisted(file, u).isNone
           /\ (u # obs.user \/ ~StartsWith(obs.text, BIND_PREFIX))
              => Persisted(file, u) = Persisted(obs.fileBefore, u)

SaveFailed == IsBindEvent /\ obs.save \in SaveHows \ {"ok"}

\* C18: when save_bindings fails during a bind command, no exception leaves
\* the handler, the bindings in memory hold the new binding, and the file
\* holds what it held before.
C18_FailedSaveKeepsFile ==
    SaveFailed
    => /\ obs.exc = "none"
       /\ DictGet(BindingsAfter, obs.user) = Some(TrimmedRemainder(obs.text))
       /\ file = obs.fileBefore

\* the runs that flagged a card, and the reminders a user got for it (a run
\* sends at most two for each card)
RunsFlagging(card) ==
    {k \in 1..Len(runs) :
        \E j \in 1..Len(runs[k].flagged) : runs[k].flagged[j] = card.name}
RemindersTo(u, card) ==
    {<<k, j>> \in (1..Len(runs)) \X (1..(2 * MaxCards)) :
        /\ j <= Len(runs[k].sent)
        /\ runs[k].sent[j] = Line(Some(u), "reminder", card.name)}

\* C19: with a run every 24 hours, a card whose due, members and bindings
\* stay as they are is flagged on at most one run, and each user gets at
\* most one reminder for it.
C19_FlaggedOnAtMostOneRun ==
    \A i \in 1..Len(cards) :
        /\ Cardinality(RunsFlagging(cards[i])) <= 1
        /\ \A u \in Users : Cardinality(RemindersTo(u, cards[i])) <= 1

\* a card was flagged and its member reminded on the second of three runs
\* that all had the cards
C19_Witness ==
    /\ Len(runs) >= 3
    /\ \A k \in 1..3 : runs[k].fetched /\ runs[k].exc = "none"
    /\ \E i \in 1..Len(cards) :
        /\ RunsFlagging(cards[i]) = {2}
        /\ AboutCard(runs[2], cards[i]) # <<>>

\* C20: when the POST of the card fails, no exception leaves the handler,
\* the sender is told that the card could not be created, and the reply is
\* sent.
C20_FailedPostIsReported ==
    (IsEvent /\ obs.post = "failed")
    => /\ obs.exc = "none"
       /\ Sends("card:failed")
       /\ Sends("reply")

\* the due phrase of a text resolves, whatever the day
ResolvableDue(text) ==
    /\ parse_fields(text).task_name # <<>>
    /\ Truthy(parse_fields(text).due_date_str)
    /\ \A today \in ArrivalDays :
        resolve_due(parse_fields(text).due_date_str.s, today).exc = "none"

\* C21: for a structured task message whose due phrase resolves, the card is
\* posted with the resolved due timestamp, whether the start phrase is
\* absent, resolves or does not (stated for a POST that does not fail).
C21_DueIndependentOfStart ==
    (IsEvent /\ obs.branches = <<"CreateTask">> /\ ResolvableDue(obs.text)
             /\ obs.post # "failed")
    => \E today \in ArrivalDays :
        Posts(parse_fields(obs.text).task_name,
              resolve_due(parse_fields(obs.text).due_date_str.s, today).dt)

\* C22: a phrase given as the start date resolves to the same timestamp, or
\* fails in the same way, as the same phrase given as the due date.
C22_StartResolvedAsDue ==
    Resolved => out.start = out.due

\* the table entries whose Chinese token stands at position i of s
TokensAt(s, i) == {k \in DOMAIN weekday_mapping : MatchAt(s, weekday_mapping[k][1], i)}

\* the longest of the tokens standing at one position
LongestOf(ks) ==
    CHOOSE k \in ks :
        \A l \in ks : Len(weekday_mapping[l][1]) <= Len(weekday_mapping[k][1])

\* every token of s, read from the left, replaced once by its own English
\* equivalent, and nothing else touched
RECURSIVE Translate(_, _)
Translate(s, i) ==
    IF i > Len(s) THEN <<>>
    ELSE IF TokensAt(s, i) = {} THEN <<s[i]>> \o Translate(s, i + 1)
    ELSE LET k == LongestOf(TokensAt(s, i))
         IN weekday_mapping[k][2] \o Translate(s, i + Len(weekday_mapping[k][1]))

Mapped == stage = "weekday_mapping"

\* the characters an English equivalent is written in
English == UNION {{weekday_mapping[k][2][n] : n \in DOMAIN weekday_mapping[k][2]}
                  : k \in DOMAIN weekday_mapping}

\* C23: for every phrase built from the table's tokens, each token is replaced
\* exactly once by its own English equivalent and no replacement output is
\* rewritten by a later entry: the result is the token-by-token translation,
\* holds English characters only, and "下星期一" gives "next monday".
C23_NoDoubleSubstitution ==
    Mapped =>
        /\ out = Translate(inp, 1)
        /\ \A n \in DOMAIN out : out[n] \in English
        /\ (inp = NEXT_MONDAY_CN => out = weekday_mapping[1][2])

\* "下星期一星期一" has become "next mondaymonday"
C23_Witness ==
    /\ Mapped
    /\ inp = NEXT_MONDAY_CN \o weekday_mapping[5][1]
    /\ out = weekday_mapping[1][2] \o weekday_mapping[5][2]

\* every value of a binding mapping is a non-empty string
NoEmptyId(d) == \A i \in DOMAIN d : d[i][2] # <<>>

\* the mapping the binding file holds, {} if it holds none
PersistedMapping ==
    IF load_bindings_first(file).exc = "none"
    THEN load_bindings_first(file).value ELSE <<>>

\* C24: in src/app.py.py no binding with an empty board member id is ever
\* stored: every value of the in-memory and of the persisted binding mapping
\* is a non-empty string, and a bind command with an empty id leaves the
\* store unchanged.
C24_NoEmptyIdStored ==
    /\ \A h \in Handlers : NoEmptyId(bindings[h])
    /\ NoEmptyId(PersistedMapping)
    /\ (IsEvent /\ StartsWith(obs.text, BIND_PREFIX)
        /\ trello_id_input(obs.text) = <<>>)
       => /\ file = obs.fileBefore
          /\ BindingsAfter = obs.bBefore

====
